---- MODULE Spec2Model ----
(***************************************************************************)
(* LEB128 buffered codec of src/src/lib.rs: to_leb128u, to_leb128i,        *)
(* from_leb128u and from_leb128i at the widths 8, 16, 32 and 64.           *)
(*                                                                         *)
(* A machine integer is the set of the positions of its 1 bits (bit 0 the  *)
(* least significant), a 64-bit value and the 128-bit accumulators of the  *)
(* decoders being wider than the integers of the model checker.  A signed  *)
(* value is its two's-complement bit pattern.  A byte is a number 0..255.  *)
(***************************************************************************)
EXTENDS Integers, Sequences, FiniteSets

VARIABLES pc, bits, signed, value, self, encoded, pad,
          input, idx, result, shift, ret, shl, lost

vars == <<pc, bits, signed, value, self, encoded, pad,
          input, idx, result, shift, ret, shl, lost>>

(***************************************************************************)
(* Bounds of the model.                                                    *)
(***************************************************************************)
\* longest padded re-encoding handed to a decoder
MaxPadded == 19
\* most continuation bytes put in front of a raw decoder input
MaxFill == 19

(***************************************************************************)
(* Bit patterns.                                                           *)
(***************************************************************************)
Widths == {8, 16, 32, 64}

\* width in bits of the u128 / i128 accumulator: size_of_val(&result) * 8
size == 128

Pow2(n) == 2 ^ n

\* the number held in the n bits of S from position lo on (n <= 30)
BitsToNat(S, lo, n) ==
    LET f[j \in 0..n] ==
            IF j = 0 THEN 0
            ELSE f[j - 1] + (IF (lo + j - 1) \in S THEN Pow2(j - 1) ELSE 0)
    IN  f[n]

\* the bit pattern of a small natural number
NatToBits(x) == {b \in 0..30 : (x \div Pow2(b)) % 2 = 1}

\* bitwise complement at width w
Not(w, S) == (0..(w - 1)) \ S

\* `(self & 0b01111111) as u8`
Low7(S) == BitsToNat(S, 0, 7)

\* a shift by 6 in place of 7
Shr7Mut(w, S) == {b - 6 : b \in {c \in S : c >= 6}}

\* `self >>= 7` on an unsigned type: logical shift
Shr7(w, S) == {b - 7 : b \in {c \in S : c >= 7}}

\* a logical shift in place of the arithmetic one
AShr7Mut(w, S) == Shr7(w, S)

\* `self >>= 7` on a signed type: arithmetic shift, the sign bit is copied
AShr7(w, S) ==
    Shr7(w, S) \cup (IF (w - 1) \in S THEN (w - 7)..(w - 1) ELSE {})

\* `self == 0` and `self == -1`
IsZero(S) == S = {}
IsMinusOne(w, S) == S = 0..(w - 1)

\* `byte & 0b01000000 != 0`
Bit6(byte) == (byte \div 64) % 2 = 1

\* `byte & 0b10000000 != 0`
Continues(byte) == byte >= 128

\* the exit test of the unsigned encoder, on the shifted self
DoneU(w, S, byte) == IsZero(S)

\* the exit test of the unsigned encoder used by the signed one
DoneIMut(w, S, byte) == IsZero(S)

\* the exit test of the signed encoder, on the shifted self
DoneI(w, S, byte) ==
    (IsZero(S) /\ ~Bit6(byte)) \/ (IsMinusOne(w, S) /\ Bit6(byte))

(***************************************************************************)
(* Arguments of the calls.                                                 *)
(***************************************************************************)
\* every 8-bit value; at the wider widths 2^k - 1, 2^k, their complements
\* (MAX - 2^k, -2^k, -2^k - 1, ...) and the two alternating patterns
Values(w) ==
    IF w = 8 THEN SUBSET (0..7)
    ELSE LET base == {0..(k - 1) : k \in 0..w} \cup {{k} : k \in 0..(w - 1)}
                     \cup {{b \in 0..(w - 1) : b % 2 = 0}}
         IN  base \cup {Not(w, S) : S \in base}

NoRet == [tag |-> "None", val |-> {}]
Ok(S) == [tag |-> "Ok", val |-> S]
Err(e) == [tag |-> e, val |-> {}]

Init ==
    /\ pc = "idle"
    /\ bits = 8
    /\ signed = FALSE
    /\ value = {}
    /\ self = {}
    /\ encoded = <<>>
    /\ pad = 0
    /\ input = <<>>
    /\ idx = 0
    /\ result = {}
    /\ shift = 0
    /\ ret = NoRet
    /\ shl = 0
    /\ lost = FALSE

decVars == <<pad, input, idx, result, shift, ret, shl, lost>>
encVars == <<value, self, encoded>>

(***************************************************************************)
(* to_leb128u and to_leb128i.                                              *)
(***************************************************************************)
CallToLeb128u ==
    /\ pc = "idle"
    /\ \E w \in Widths : \E v \in Values(w) :
          /\ bits' = w
          /\ value' = v
          /\ self' = v
    /\ signed' = FALSE
    /\ encoded' = <<>>
    /\ pc' = "to_leb128u"
    /\ UNCHANGED decVars

CallToLeb128i ==
    /\ pc = "idle"
    /\ \E w \in Widths : \E v \in Values(w) :
          /\ bits' = w
          /\ value' = v
          /\ self' = v
    /\ signed' = TRUE
    /\ encoded' = <<>>
    /\ pc' = "to_leb128i"
    /\ UNCHANGED decVars

\* the exit test made on self before the shift
ToLeb128uLoopMut ==
    /\ pc = "to_leb128u"
    /\ LET byte == Low7(self)
       IN  /\ self' = Shr7(bits, self)
           /\ IF DoneU(bits, self, byte)
              THEN encoded' = Append(encoded, byte) /\ pc' = "encoded"
              ELSE encoded' = Append(encoded, byte + 128) /\ pc' = pc
    /\ UNCHANGED <<bits, signed, value>>
    /\ UNCHANGED decVars

\* one iteration of the loop of to_leb128u
ToLeb128uLoop ==
    /\ pc = "to_leb128u"
    /\ LET byte == Low7(self)
       IN  /\ self' = Shr7(bits, self)
           /\ IF DoneU(bits, self', byte)
              THEN encoded' = Append(encoded, byte) /\ pc' = "encoded"
              ELSE encoded' = Append(encoded, byte + 128) /\ pc' = pc
    /\ UNCHANGED <<bits, signed, value>>
    /\ UNCHANGED decVars

\* one iteration of the loop of to_leb128i
ToLeb128iLoop ==
    /\ pc = "to_leb128i"
    /\ LET byte == Low7(self)
       IN  /\ self' = AShr7(bits, self)
           /\ IF DoneI(bits, self', byte)
              THEN encoded' = Append(encoded, byte) /\ pc' = "encoded"
              ELSE encoded' = Append(encoded, byte + 128) /\ pc' = pc
    /\ UNCHANGED <<bits, signed, value>>
    /\ UNCHANGED decVars

(***************************************************************************)
(* Inputs of the decoders.                                                 *)
(***************************************************************************)
Last(s) == s[Len(s)]
Front(s) == SubSeq(s, 1, Len(s) - 1)

\* k copies of byte b
Rep(b, k) == [i \in 1..k |-> b]

\* a non-canonical re-encoding: the continuation bit is set on the last byte
\* of enc and k padding bytes of payload p follow, the last one terminating
Padded(enc, k, p) ==
    IF k = 0 THEN enc
    ELSE Front(enc) \o <<Last(enc) + 128>> \o Rep(p + 128, k - 1) \o <<p>>

\* payload of the padding bytes that leave the value v unchanged
PadPayload(w, sgn, v) == IF sgn /\ (w - 1) \in v THEN 127 ELSE 0

FillBytes == {128, 255}
TailBytes == {0, 1, 3, 63, 64, 127, 128, 255}
Tails == {<<>>} \cup {<<a>> : a \in TailBytes}
         \cup {<<a, b>> : a \in TailBytes, b \in TailBytes}

\* raw slices: up to MaxFill continuation bytes, then up to two more bytes
RawInputs == {Rep(f, k) \o t : f \in FillBytes, k \in 0..MaxFill, t \in Tails}

(***************************************************************************)
(* from_leb128u and from_leb128i.                                          *)
(***************************************************************************)
Max(a, b) == IF a >= b THEN a ELSE b

\* `x << s` at the width of the accumulator, for s < size
Shl(S, s) == {b + s : b \in S} \cap (0..(size - 1))

\* `byte & 0b01111111`, as a bit pattern
Payload(byte) == NatToBits(byte % 128)

\* the sign extension from the shift of before `shift += 7`
OnesFromMut(s) == (s - 7)..(size - 1)

\* `!0 << s` on an i128
OnesFrom(s) == s..(size - 1)

\* a guard at twice the width of the accumulator
TooLongMut(sh) == sh >= size + size

\* a guard at the width of a 64-bit accumulator
TooLongMut64(sh) == sh >= size \div 2

\* `shift >= size`
TooLong(sh) == sh >= size

\* `result as $uint`: the truncating cast
UTryFromMut(w, r) == Ok(r \cap (0..(w - 1)))

\* `<$uint>::try_from(result)` of a u128
UTryFrom(w, r) ==
    IF r \subseteq 0..(w - 1) THEN Ok(r) ELSE Err("TryFromInt")

\* `<$iint>::try_from(result)` of an i128: in range when the bits from the
\* sign bit of the target up are all equal
ITryFrom(w, r) ==
    LET hi == (w - 1)..(size - 1)
    IN  IF hi \cap r = {} \/ hi \subseteq r
        THEN Ok(r \cap (0..(w - 1)))
        ELSE Err("TryFromInt")

CallFrom(w, sgn, inp, k) ==
    /\ bits' = w
    /\ signed' = sgn
    /\ input' = inp
    /\ pad' = k
    /\ idx' = 0
    /\ result' = {}
    /\ shift' = 0
    /\ ret' = NoRet
    /\ shl' = 0
    /\ lost' = FALSE
    /\ pc' = IF sgn THEN "from_leb128i" ELSE "from_leb128u"

\* from_leb128u(&to_leb128u(value)), or of a padded form of it
DecodeEncodedU ==
    /\ pc = "encoded"
    /\ ~signed
    /\ \E k \in 0..(MaxPadded - Len(encoded)) :
          CallFrom(bits, FALSE,
                   Padded(encoded, k, PadPayload(bits, FALSE, value)), k)
    /\ UNCHANGED encVars

\* from_leb128i(&to_leb128i(value)), or of a padded form of it
DecodeEncodedI ==
    /\ pc = "encoded"
    /\ signed
    /\ \E k \in 0..(MaxPadded - Len(encoded)) :
          CallFrom(bits, TRUE,
                   Padded(encoded, k, PadPayload(bits, TRUE, value)), k)
    /\ UNCHANGED encVars

CallFromLeb128u ==
    /\ pc = "idle"
    /\ \E w \in Widths : \E inp \in RawInputs : CallFrom(w, FALSE, inp, -1)
    /\ UNCHANGED encVars

CallFromLeb128i ==
    /\ pc = "idle"
    /\ \E w \in Widths : \E inp \in RawInputs : CallFrom(w, TRUE, inp, -1)
    /\ UNCHANGED encVars

loopFrame == <<bits, signed, value, self, encoded, pad, input>>

\* one iteration of `for &byte in input` of from_leb128u
FromLeb128uLoop ==
    /\ pc = "from_leb128u"
    /\ idx < Len(input)
    /\ LET byte == input[idx + 1]
           sh == shift + 7
       IN  IF shift >= size
           THEN \* shift amount not below the width of the type
                /\ pc' = "panic"
                /\ UNCHANGED <<idx, result, shift, ret, shl, lost>>
           ELSE /\ result' = result \cup Shl(Payload(byte), shift)
                /\ shl' = Max(shl, shift)
                /\ lost' = (lost \/ \E b \in Payload(byte) : b + shift >= size)
                /\ shift' = sh
                /\ idx' = idx + 1
                /\ IF TooLong(sh)
                   THEN ret' = Err("TooLongBytes") /\ pc' = "returned"
                   ELSE /\ ret' = ret
                        /\ pc' = IF Continues(byte) THEN pc ELSE "try_from"
    /\ UNCHANGED loopFrame

\* one iteration of `for &byte in input` of from_leb128i
FromLeb128iLoop ==
    /\ pc = "from_leb128i"
    /\ idx < Len(input)
    /\ LET byte == input[idx + 1]
           sh == shift + 7
           acc == result \cup Shl(Payload(byte), shift)
           extend == ~TooLong(sh) /\ ~Continues(byte) /\ Bit6(byte)
       IN  IF shift >= size \/ (extend /\ sh >= size)
           THEN \* shift amount not below the width of the type
                /\ pc' = "panic"
                /\ UNCHANGED <<idx, result, shift, ret, shl, lost>>
           ELSE /\ result' = IF extend THEN acc \cup OnesFrom(sh) ELSE acc
                /\ shl' = IF extend THEN Max(shl, sh) ELSE Max(shl, shift)
                /\ lost' = (lost \/ \E b \in Payload(byte) : b + shift >= size)
                /\ shift' = sh
                /\ idx' = idx + 1
                /\ IF TooLong(sh)
                   THEN ret' = Err("TooLongBytes") /\ pc' = "returned"
                   ELSE /\ ret' = ret
                        /\ pc' = IF Continues(byte) THEN pc ELSE "try_from"
    /\ UNCHANGED loopFrame

\* the statement after the loop is reached: by `break`, or because the
\* slice ended with no terminating byte seen
LoopLeft(loop) ==
    IF pc = "try_from" THEN TRUE ELSE pc = loop /\ idx = Len(input)

\* the narrowing after the loop of from_leb128u
FromLeb128uReturn ==
    /\ LoopLeft("from_leb128u")
    /\ ~signed
    /\ ret' = UTryFrom(bits, result)
    /\ pc' = "returned"
    /\ UNCHANGED <<idx, result, shift, shl, lost>>
    /\ UNCHANGED loopFrame

\* the narrowing after the loop of from_leb128i
FromLeb128iReturn ==
    /\ LoopLeft("from_leb128i")
    /\ signed
    /\ ret' = ITryFrom(bits, result)
    /\ pc' = "returned"
    /\ UNCHANGED <<idx, result, shift, shl, lost>>
    /\ UNCHANGED loopFrame

Decode ==
    \/ FromLeb128uLoop
    \/ FromLeb128iLoop
    \/ FromLeb128uReturn
    \/ FromLeb128iReturn

\* encode, then decode the encoding or a padded form of it
Next ==
    \/ CallToLeb128u
    \/ CallToLeb128i
    \/ ToLeb128uLoop
    \/ ToLeb128iLoop
    \/ DecodeEncodedU
    \/ DecodeEncodedI
    \/ Decode

Spec == Init /\ [][Next]_vars

\* decode raw slices
NextDecode ==
    \/ CallFromLeb128u
    \/ CallFromLeb128i
    \/ Decode

SpecDecode == Init /\ [][NextDecode]_vars

(***************************************************************************)
(* Numbers, for the statements below.  A large number is read as its       *)
(* base-128 digits, least significant first; a small one as an integer.    *)
(***************************************************************************)
\* ceil(w / 7)
NGroups(w) == (w + 6) \div 7

\* how many of the 7 bits of digit i (from 1) lie below bit w
BitsBelow(w, i) ==
    IF w - 7 * (i - 1) >= 7 THEN 7
    ELSE IF w - 7 * (i - 1) <= 0 THEN 0 ELSE w - 7 * (i - 1)

\* digit i of the number whose bit pattern is S
Group(S, i) == BitsToNat(S, 7 * (i - 1), 7)

\* the number with digits d is below 2^w
DigitsFit(d, w) == \A i \in DOMAIN d : d[i] < Pow2(BitsBelow(w, i))

\* a byte with a clear continuation bit occurs in the slice
HasTerm(inp) == \E i \in 1..Len(inp) : inp[i] < 128

\* the number of bytes up to and including the first such byte
TermPos(inp) ==
    CHOOSE i \in 1..Len(inp) :
        inp[i] < 128 /\ \A j \in 1..(i - 1) : inp[j] >= 128

PayloadDigits(inp, n) == [i \in 1..n |-> inp[i] % 128]

\* sum over i < n of (byte_i & 0x7F) * 128^i, for n <= 4
PayloadSum(inp, n) ==
    LET f[j \in 0..n] ==
            IF j = 0 THEN 0 ELSE f[j - 1] + (inp[j] % 128) * (128 ^ (j - 1))
    IN  f[n]

\* the integer of a w-bit two's-complement pattern of magnitude below 2^30
ToInt(w, S) ==
    IF (w - 1) \in S THEN -(BitsToNat(Not(w, S), 0, 30) + 1)
    ELSE BitsToNat(S, 0, 30)

Encoding == pc \notin {"idle", "to_leb128u", "to_leb128i"}
Returned == pc = "returned"
IsErr == ret.tag \in {"TooLongBytes", "TryFromInt"}

(***************************************************************************)
(* C1: unsigned round trip.  from_leb128u of to_leb128u(v), at the width   *)
(* of v, returns Ok(v).                                                    *)
(***************************************************************************)
C1_UnsignedRoundTrip ==
    (Returned /\ ~signed /\ pad = 0) => ret = Ok(value)

C1_Witness ==
    /\ Returned /\ ~signed /\ pad = 0
    /\ bits = 64 /\ value = 0..63 /\ Len(input) = 10
    /\ ret = Ok(value)

(***************************************************************************)
(* C2: signed round trip.  from_leb128i of to_leb128i(v), at the width of  *)
(* v, returns Ok(v), MIN, -1, 0 and MAX included.                          *)
(***************************************************************************)
C2_SignedRoundTrip ==
    (Returned /\ signed /\ pad = 0) => ret = Ok(value)

\* i64::MIN came back
C2_Witness ==
    /\ Returned /\ signed /\ pad = 0
    /\ bits = 64 /\ value = {63} /\ Len(input) = 10
    /\ ret = Ok(value)

(***************************************************************************)
(* C3: a slice holding no byte with a clear continuation bit (the empty    *)
(* slice included) makes from_leb128u and from_leb128i return an error.    *)
(***************************************************************************)
C3_ExhaustedIsError ==
    (Returned /\ ~HasTerm(input)) => IsErr

(***************************************************************************)
(* C4: to_leb128u and to_leb128i stop after at most ceil(w/7) bytes, and   *)
(* return 1..ceil(w/7) bytes of which all but the last have the            *)
(* continuation bit set and the last has it clear.  While the loop runs    *)
(* fewer than ceil(w/7) bytes have been pushed, all with the bit set, and  *)
(* every iteration pushes one: iteration ceil(w/7) at the latest breaks.   *)
(***************************************************************************)
C4_EncodeLength ==
    /\ pc \in {"to_leb128u", "to_leb128i"} =>
          /\ Len(encoded) < NGroups(bits)
          /\ \A i \in 1..Len(encoded) : encoded[i] >= 128
    /\ Encoding =>
          /\ Len(encoded) >= 1
          /\ Len(encoded) <= NGroups(bits)
          /\ Last(encoded) < 128
          /\ \A i \in 1..(Len(encoded) - 1) : encoded[i] >= 128
    /\ bits = 8 => Len(encoded) <= 2
    /\ bits = 16 => Len(encoded) <= 3
    /\ bits = 32 => Len(encoded) <= 5
    /\ bits = 64 => Len(encoded) <= 10

C4_Witness ==
    pc = "encoded" /\ signed /\ bits = 64 /\ Len(encoded) = 10

(***************************************************************************)
(* C5: the last byte of a multi-byte encoding is needed.  Unsigned: its    *)
(* payload is not zero.  Signed: it is not 0x00 after a byte with bit 6    *)
(* clear, nor 0x7F after a byte with bit 6 set.  At every width            *)
(* 127 -> [7F], 128 -> [80 01] unsigned and 63 -> [3F], 64 -> [C0 00],     *)
(* -64 -> [40], -65 -> [BF 7F] signed.                                     *)
(***************************************************************************)
C5_CanonicalMinimality ==
    Encoding =>
      LET n == Len(encoded)
      IN  /\ (n > 1 /\ ~signed) => encoded[n] % 128 # 0
          /\ (n > 1 /\ signed) =>
                /\ ~(encoded[n] = 0 /\ ~Bit6(encoded[n - 1]))
                /\ ~(encoded[n] = 127 /\ Bit6(encoded[n - 1]))
          /\ (~signed /\ value = NatToBits(127)) => encoded = <<127>>
          /\ (~signed /\ value = NatToBits(128)) => encoded = <<128, 1>>
          /\ (signed /\ value = NatToBits(63)) => encoded = <<63>>
          /\ (signed /\ value = NatToBits(64)) => encoded = <<192, 0>>
          /\ (signed /\ value = Not(bits, NatToBits(63))) => encoded = <<64>>
          /\ (signed /\ value = Not(bits, NatToBits(64)))
                => encoded = <<191, 127>>

\* -65 as i64
C5_Witness ==
    /\ pc = "encoded" /\ signed /\ bits = 64
    /\ value = Not(bits, NatToBits(64))
    /\ encoded = <<191, 127>>

(***************************************************************************)
(* C6: a slice whose first 19 bytes all have the continuation bit set      *)
(* makes from_leb128u and from_leb128i, at every width, return             *)
(* Err(TooLongBytes): the call reads 19 bytes, no more, never reaches the  *)
(* narrowing and never shifts too far.                                     *)
(***************************************************************************)
C6_OverLengthGuard ==
    (pc # "idle" /\ Len(input) >= 19 /\ \A i \in 1..19 : input[i] >= 128) =>
        /\ pc \in {"from_leb128u", "from_leb128i", "returned"}
        /\ idx <= 19
        /\ (idx = 19) = Returned
        /\ Returned => ret = Err("TooLongBytes")

C6_Witness ==
    /\ Returned /\ signed /\ bits = 64
    /\ Len(input) = 21 /\ \A i \in 1..19 : input[i] >= 128
    /\ ret = Err("TooLongBytes")

(***************************************************************************)
(* C7: with the first byte with a clear continuation bit the n-th,         *)
(* n <= 18, from_leb128u returns Ok(A) when A <= U::MAX and                *)
(* Err(TryFromInt) otherwise, A the sum of (byte_i & 0x7F) * 128^i over    *)
(* the first n bytes; never A reduced modulo 2^width.  Stated on the       *)
(* base-128 digits of A at every n, and on A itself for n <= 4.            *)
(***************************************************************************)
C7_UnsignedRange ==
    (Returned /\ ~signed /\ HasTerm(input) /\ TermPos(input) <= 18) =>
      LET n == TermPos(input)
          d == PayloadDigits(input, n)
          A == PayloadSum(input, n)
      IN  /\ IF DigitsFit(d, bits)
             THEN /\ ret.tag = "Ok"
                  /\ \A i \in 1..19 :
                        Group(ret.val, i) = (IF i <= n THEN d[i] ELSE 0)
             ELSE ret = Err("TryFromInt")
          /\ (n <= 4 /\ bits <= 16) => (ret.tag = "Ok") = (A <= Pow2(bits) - 1)
          /\ (n <= 4 /\ bits > 16) => ret.tag = "Ok"
          /\ (n <= 4 /\ ret.tag = "Ok") =>
                ret.val \subseteq 0..29 /\ BitsToNat(ret.val, 0, 30) = A

\* [0xFF, 0x03] = 511 as u16, and the same slice refused as u8
C7_Witness ==
    /\ Returned /\ ~signed /\ input = <<255, 3>>
    /\ bits = 16 /\ ret = Ok(NatToBits(511))

(***************************************************************************)
(* C8: the canonical encoding of v with the continuation bit set on its    *)
(* last byte and k >= 1 padding bytes appended (payload 0x00, or 0x7F for  *)
(* a negative v), at most 18 bytes in all, decodes to Ok(v) at the width   *)
(* of v.  [0x81,0x00] as u8 is Ok(1) and [0xFF,0x7F] as i8 is Ok(-1).      *)
(***************************************************************************)
C8_PaddingAccepted ==
    /\ (Returned /\ pad >= 1 /\ Len(input) <= 18) => ret = Ok(value)
    /\ (Returned /\ ~signed /\ bits = 8 /\ input = <<129, 0>>)
          => ret = Ok({0})
    /\ (Returned /\ signed /\ bits = 8 /\ input = <<255, 127>>)
          => ret = Ok(0..7)

\* a negative i64 padded to 18 bytes
C8_Witness ==
    /\ Returned /\ signed /\ bits = 64 /\ 63 \in value
    /\ pad >= 1 /\ Len(input) = 18 /\ Len(encoded) = 1
    /\ ret = Ok(value)

(***************************************************************************)
(* C9: with the first byte with a clear continuation bit the n-th,         *)
(* n <= 18, from_leb128i computes S = A - 2^(7n) when bit 6 of that byte   *)
(* is set and S = A when it is clear, reads nothing after that byte, and   *)
(* returns Ok(S) when I::MIN <= S <= I::MAX and Err(TryFromInt) otherwise. *)
(* Stated on base-128 digits at every n (for a negative S, on the digits   *)
(* of -S - 1 = 2^(7n) - 1 - A), and on S itself for n <= 4.                *)
(***************************************************************************)
C9_SignedExtension ==
    (Returned /\ signed /\ HasTerm(input) /\ TermPos(input) <= 18) =>
      LET n == TermPos(input)
          neg == Bit6(input[n])
          d == PayloadDigits(input, n)
          c == [i \in 1..n |-> 127 - d[i]]
          A == PayloadSum(input, n)
          S == IF neg THEN A - 128 ^ n ELSE A
      IN  /\ idx = n
          /\ IF DigitsFit(IF neg THEN c ELSE d, bits - 1)
             THEN /\ ret.tag = "Ok"
                  /\ ret.val \subseteq 0..(bits - 1)
                  /\ \A i \in 1..NGroups(bits) :
                        Group(ret.val, i) =
                           (IF i <= n THEN d[i] ELSE IF neg THEN 127 ELSE 0)
                              % Pow2(BitsBelow(bits, i))
             ELSE ret = Err("TryFromInt")
          /\ (n <= 4 /\ bits <= 16) =>
                (ret.tag = "Ok")
                   = (-Pow2(bits - 1) <= S /\ S <= Pow2(bits - 1) - 1)
          /\ (n <= 4 /\ bits > 16) => ret.tag = "Ok"
          /\ (n <= 4 /\ ret.tag = "Ok") =>
                /\ (IF neg THEN Not(bits, ret.val) ELSE ret.val) \subseteq 0..29
                /\ ToInt(bits, ret.val) = S

\* [0xFF, 0x40, 0x7F]: S = 127 + 64 * 128 - 128^2 = -8065, the third byte unread
C9_Witness ==
    /\ Returned /\ signed /\ input = <<255, 64, 127>>
    /\ bits = 16 /\ idx = 2
    /\ ret.tag = "Ok" /\ ToInt(bits, ret.val) = -8065

(***************************************************************************)
(* C10: every left shift of from_leb128u and from_leb128i is by at most    *)
(* 126 bits; no payload bit of a slice that decodes to Ok is shifted out   *)
(* of the accumulator; the call never fails on a shift and ends in Ok or   *)
(* Err after reading at most 19 bytes.                                     *)
(***************************************************************************)
C10_ShiftSafety ==
    /\ pc # "panic"
    /\ shl <= 126
    /\ shl < size
    /\ ret.tag = "Ok" => ~lost
    /\ idx <= 19 /\ idx <= Len(input)
    /\ Returned => ret.tag \in {"Ok", "TooLongBytes", "TryFromInt"}

\* the 19th byte is shifted by 126 bits and loses payload bits; the call fails
C10_Witness ==
    /\ Returned /\ signed /\ shl = 126 /\ lost
    /\ ret = Err("TooLongBytes")
====
